---- MODULE Spec2Model ----
(***************************************************************************)
(* ThriftConnPool of gohbase (src/pool.go): the admission gate, the idle   *)
(* list, the reaper, min-idle replenishment, the dial circuit breaker and  *)
(* Close, as a state machine of interleaved goroutines.  A mutex-protected *)
(* critical section and an atomic operation are one step each; everything  *)
(* between two of them may interleave with the other goroutines.           *)
(***************************************************************************)
EXTENDS Integers, Sequences, FiniteSets

(* ---------------------------------------------------------------- bounds *)
\* successful dials by newConn (connection identities 1..MaxDials)
MaxDials == 2
\* the clock runs from 0 to MaxTime
MaxTime == 1
\* Get calls started, over all callers
MaxGets == 2

\* the goroutines calling Get / Put / Remove / Close
Callers == {"a", "b"}

\* the Options the pool is constructed with (Options.init is never called
\* by NewHBase or NewThriftConnPool, so the fields are used as given)
Configs ==
  { [PoolSize |-> 1, MinIdleConns |-> 0, IdleTimeout |-> 1, IdleCheckFrequency |-> 1],
    [PoolSize |-> 1, MinIdleConns |-> 1, IdleTimeout |-> 1, IdleCheckFrequency |-> -1],
    [PoolSize |-> 2, MinIdleConns |-> 1, IdleTimeout |-> -1, IdleCheckFrequency |-> 1],
    [PoolSize |-> 2, MinIdleConns |-> 0, IdleTimeout |-> 0, IdleCheckFrequency |-> 1] }

VARIABLES
  opt,            \* tp.opt
  closed,         \* tp._closed (0 or 1)
  queue,          \* number of tokens in the channel tp.queue
  conns,          \* tp.conns, a sequence of connection ids
  idleConns,      \* tp.idleConns
  poolSize,       \* tp.poolSize
  idleConnsLen,   \* tp.idleConnsLen
  dialErrorsNum,  \* tp.dialErrorsNum
  lastDialError,  \* tp.lastDialError ("nil" or "dialErr")
  stats,          \* tp.stats (Hits, Misses, Timeouts, StaleConns)
  thriftConn,     \* every ThriftConn dialed by newConn: id -> [closed, pooled, usedTime]
  now,            \* time.Now()
  pc,             \* each caller's position
  cn,             \* each caller's local cn (0 is nil)
  ret,            \* what each caller's last Get / Close returned
  reaper,         \* the reaper goroutine: [pc, cn, n]
  addIdle,        \* addIdleConn goroutines: how many at each position
  addIdleCn,      \* the connections of the addIdleConn goroutines that dialed
  tryDials,       \* tryDial goroutines: how many at each position
  gets,           \* Get calls started so far
  lateGet,        \* the callers whose Get was let through the gate after Close
                  \* had set _closed (a history of the run, not a pool field)
  pooledArg,      \* the argument pooled of each caller's direct NewConn call
  newConns        \* direct NewConn calls started so far

vars == << opt, closed, queue, conns, idleConns, poolSize, idleConnsLen,
           dialErrorsNum, lastDialError, stats, thriftConn, now, pc, cn, ret,
           reaper, addIdle, addIdleCn, tryDials, gets, lateGet,
           pooledArg, newConns >>

poolVars == << conns, idleConns, poolSize, idleConnsLen >>
callerVars == << pc, cn, ret >>
bgVars == << reaper, addIdle, addIdleCn, tryDials >>

(* --------------------------------------------------------------- helpers *)
RemoveAt(s, i) == SubSeq(s, 1, i - 1) \o SubSeq(s, i + 1, Len(s))

Range(s) == { s[i] : i \in 1..Len(s) }

\* the index of the first element of s equal to x, 0 when there is none
IndexOf(s, x) ==
  IF \E i \in 1..Len(s) : s[i] = x
  THEN CHOOSE i \in 1..Len(s) : s[i] = x /\ \A j \in 1..(i - 1) : s[j] # x
  ELSE 0

Bump(f, k, d) == [f EXCEPT ![k] = @ + d]

(* ------------------------------------------------------------ ThriftConn *)
\* NewThriftConn: closed = false, usedTime = now (UpdateUsedTime); pooled is
\* set by newConn; socketCloses counts the calls of socket.Close()
NewThriftConn(t, pooled) ==
  [closed |-> FALSE, pooled |-> pooled, usedTime |-> t, socketCloses |-> 0]

\* (mutant) ThriftConn.Close without its test of closed
ConnCloseUnguarded(tc, c) ==
  [tc EXCEPT ![c].closed = TRUE, ![c].socketCloses = @ + 1]

\* ThriftConn.Close: nil at once for a closed connection; otherwise closed is
\* set and the socket is closed
ConnClose(tc, c) ==
  IF tc[c].closed THEN tc
  ELSE [tc EXCEPT ![c].closed = TRUE, ![c].socketCloses = @ + 1]

\* closes every connection of the sequence s
RECURSIVE ConnCloseAll(_, _)
ConnCloseAll(tc, s) ==
  IF s = << >> THEN tc ELSE ConnCloseAll(ConnClose(tc, Head(s)), Tail(s))

(* ------------------------------------------------------------ pool parts *)
\* (mutant) isStaleConn with > in place of >=
isStaleConnStrict(c) ==
  IF opt.IdleTimeout = 0 THEN FALSE
  ELSE opt.IdleTimeout > 0 /\ now - thriftConn[c].usedTime > opt.IdleTimeout

\* isStaleConn
isStaleConn(c) ==
  IF opt.IdleTimeout = 0 THEN FALSE
  ELSE opt.IdleTimeout > 0 /\ now - thriftConn[c].usedTime >= opt.IdleTimeout

\* the condition of checkMinIdleConns under which it reserves and spawns
checkMinIdleConns(o, ps, il) ==
  o.MinIdleConns # 0 /\ ps < o.PoolSize /\ il < o.MinIdleConns

\* (mutant) a channel made one slot too large
queueHasRoomOffByOne == queue <= opt.PoolSize

\* the sends of getTurn / waitTurn succeed while the channel has room
queueHasRoom == queue < opt.PoolSize

\* freeTurn receives a token: it blocks while the channel is empty
queueHasToken == queue > 0

\* (mutant) a breaker test with > in place of >=
breakerOpenLate == dialErrorsNum > opt.PoolSize

\* the breaker test of newConn
breakerOpen == dialErrorsNum >= opt.PoolSize

\* (mutant) removeConn that drops c from conns and leaves poolSize alone
removeConnKeepSize(c) ==
  LET i == IndexOf(conns, c) IN
  IF i = 0 THEN << conns, poolSize, idleConnsLen, 0 >>
  ELSE << RemoveAt(conns, i), poolSize, idleConnsLen, 0 >>

\* removeConn: drops c from conns; a pooled one gives its poolSize back and
\* checkMinIdleConns runs.  The tuple is << conns', poolSize', idleConnsLen', spawned >>
removeConn(c) ==
  LET i == IndexOf(conns, c) IN
  IF i = 0 THEN << conns, poolSize, idleConnsLen, 0 >>
  ELSE IF ~thriftConn[c].pooled THEN << RemoveAt(conns, i), poolSize, idleConnsLen, 0 >>
  ELSE IF checkMinIdleConns(opt, poolSize - 1, idleConnsLen)
       THEN << RemoveAt(conns, i), poolSize, idleConnsLen + 1, 1 >>
       ELSE << RemoveAt(conns, i), poolSize - 1, idleConnsLen, 0 >>

\* (mutant) popIdle that takes the head of the idle list (first in, first out)
popIdleFifo(idle) == << idle[1], SubSeq(idle, 2, Len(idle)) >>

\* (mutant) popIdle that leaves the connection in the idle list
popIdleKeep(idle) == << idle[Len(idle)], idle >>

\* popIdle, lines 253-255: the last element leaves the idle list
\* << cn, idleConns' >>
popIdle(idle) == << idle[Len(idle)], SubSeq(idle, 1, Len(idle) - 1) >>

\* reapStaleConn, lines 74, 79: the head element leaves the idle list
\* << cn, idleConns' >>
reapStaleConn(idle) == << idle[1], SubSeq(idle, 2, Len(idle)) >>

\* (mutant) NewConn that counts every connection against poolSize
registerPooledAlways(ps) == TRUE

\* NewConn's decision: the new connection counts against poolSize
registerPooled(ps) == ps < opt.PoolSize

\* NewThriftConnPool: MinIdleConns calls of checkMinIdleConns on the new pool;
\* the result is the number of addIdleConn goroutines it starts
RECURSIVE InitMinIdle(_, _, _)
InitMinIdle(o, i, n) ==
  IF i >= o.MinIdleConns THEN n
  ELSE InitMinIdle(o, i + 1, IF checkMinIdleConns(o, n, n) THEN n + 1 ELSE n)

reaperStarted(o) == o.IdleTimeout > 0 /\ o.IdleCheckFrequency > 0

AddIdlePcs == {"start", "breaker", "dial", "failed"}
TryDialPcs == {"start", "dial", "store", "close"}

\* NewThriftConnPool: the pool as constructed from the Options o, which are
\* used as given (line 49: the channel's capacity is o.PoolSize)
NewThriftConnPool(o) ==
  /\ opt = o
  /\ closed = 0
  /\ queue = 0
  /\ conns = << >>
  /\ idleConns = << >>
  /\ poolSize = InitMinIdle(opt, 0, 0)
  /\ idleConnsLen = InitMinIdle(opt, 0, 0)
  /\ dialErrorsNum = 0
  /\ lastDialError = "nil"
  /\ stats = [Hits |-> 0, Misses |-> 0, Timeouts |-> 0, StaleConns |-> 0]
  /\ thriftConn = << >>
  /\ now = 0
  /\ pc = [p \in Callers |-> "idle"]
  /\ cn = [p \in Callers |-> 0]
  /\ ret = [p \in Callers |-> "none"]
  /\ reaper = [pc |-> IF reaperStarted(opt) THEN "ticker" ELSE "off", cn |-> 0, n |-> 0]
  /\ addIdle = [s \in AddIdlePcs |-> IF s = "start" THEN InitMinIdle(opt, 0, 0) ELSE 0]
  /\ addIdleCn = {}
  /\ tryDials = [s \in TryDialPcs |-> 0]
  /\ gets = 0
  /\ lateGet = {}
  /\ pooledArg = [p \in Callers |-> TRUE]
  /\ newConns = 0

Init == \E o \in Configs : NewThriftConnPool(o)


(* ------------------------------------------------------------------ Get *)
\* Get, line 323: the closed check of a new call
Get(p) ==
  /\ pc[p] = "idle"
  /\ gets < MaxGets
  /\ gets' = gets + 1
  /\ IF closed = 1
     THEN /\ ret' = [ret EXCEPT ![p] = "ErrClosed"]
          /\ pc' = pc
     ELSE /\ ret' = [ret EXCEPT ![p] = "none"]
          /\ pc' = [pc EXCEPT ![p] = "waitTurn"]
  /\ UNCHANGED << opt, lateGet, pooledArg, newConns, closed, queue, poolVars, dialErrorsNum, lastDialError,
                  stats, thriftConn, now, cn, bgVars >>

\* waitTurn, the first select: the send succeeds at once
WaitTurn(p) ==
  /\ pc[p] = "waitTurn"
  /\ queueHasRoom
  /\ queue' = queue + 1
  /\ pc' = [pc EXCEPT ![p] = "popIdle"]
  /\ lateGet' = IF closed = 1 THEN lateGet \cup {p} ELSE lateGet
  /\ UNCHANGED << opt, pooledArg, newConns, closed, poolVars, dialErrorsNum, lastDialError, stats,
                  thriftConn, now, cn, ret, bgVars, gets >>

\* waitTurn, the default branch: the channel is full, the timer is started
WaitTurnBlocked(p) ==
  /\ pc[p] = "waitTurn"
  /\ ~queueHasRoom
  /\ pc' = [pc EXCEPT ![p] = "waitTimer"]
  /\ UNCHANGED << opt, lateGet, pooledArg, newConns, closed, queue, poolVars, dialErrorsNum, lastDialError,
                  stats, thriftConn, now, cn, ret, bgVars, gets >>

\* waitTurn, the second select: a slot frees before the timer fires
WaitTurnLate(p) ==
  /\ pc[p] = "waitTimer"
  /\ queueHasRoom
  /\ queue' = queue + 1
  /\ pc' = [pc EXCEPT ![p] = "popIdle"]
  /\ lateGet' = IF closed = 1 THEN lateGet \cup {p} ELSE lateGet
  /\ UNCHANGED << opt, pooledArg, newConns, closed, poolVars, dialErrorsNum, lastDialError, stats,
                  thriftConn, now, cn, ret, bgVars, gets >>

\* (mutant) a timeout branch that forgets to count the timeout
WaitTurnTimeoutUncounted(p) ==
  /\ pc[p] = "waitTimer"
  /\ ret' = [ret EXCEPT ![p] = "ErrPoolTimeout"]
  /\ pc' = [pc EXCEPT ![p] = "idle"]
  /\ UNCHANGED << opt, lateGet, pooledArg, newConns, closed, queue, poolVars, dialErrorsNum, lastDialError,
                  stats, thriftConn, now, cn, bgVars, gets >>

\* waitTurn, the second select: the timer fires (PoolTimeout has passed)
WaitTurnTimeout(p) ==
  /\ pc[p] = "waitTimer"
  /\ stats' = [stats EXCEPT !.Timeouts = @ + 1]
  /\ ret' = [ret EXCEPT ![p] = "ErrPoolTimeout"]
  /\ pc' = [pc EXCEPT ![p] = "idle"]
  /\ UNCHANGED << opt, lateGet, pooledArg, newConns, closed, queue, poolVars, dialErrorsNum, lastDialError,
                  thriftConn, now, cn, bgVars, gets >>

\* Get, lines 333-339: popIdle under the mutex (with its checkMinIdleConns);
\* an empty list ends the loop and counts a miss (line 350)
PopIdle(p) ==
  /\ pc[p] = "popIdle"
  /\ IF Len(idleConns) = 0
     THEN /\ cn' = [cn EXCEPT ![p] = 0]
          /\ stats' = [stats EXCEPT !.Misses = @ + 1]
          /\ pc' = [pc EXCEPT ![p] = "newConn"]
          /\ UNCHANGED << poolVars, addIdle >>
     ELSE LET popped == popIdle(idleConns)
              spawn == checkMinIdleConns(opt, poolSize, idleConnsLen - 1)
          IN /\ cn' = [cn EXCEPT ![p] = popped[1]]
             /\ idleConns' = popped[2]
             /\ idleConnsLen' = IF spawn THEN idleConnsLen ELSE idleConnsLen - 1
             /\ poolSize' = IF spawn THEN poolSize + 1 ELSE poolSize
             /\ addIdle' = IF spawn THEN Bump(addIdle, "start", 1) ELSE addIdle
             /\ pc' = [pc EXCEPT ![p] = "isStale"]
             /\ UNCHANGED << conns, stats >>
  /\ UNCHANGED << opt, lateGet, pooledArg, newConns, closed, queue, dialErrorsNum, lastDialError, thriftConn,
                  now, ret, reaper, addIdleCn, tryDials, gets >>

\* (mutant) a Get that counts the idle connection it returns as a miss
IsStaleMiss(p) ==
  /\ pc[p] = "isStale"
  /\ IF isStaleConn(cn[p])
     THEN /\ pc' = [pc EXCEPT ![p] = "closeConn"]
          /\ UNCHANGED << stats, ret >>
     ELSE /\ stats' = [stats EXCEPT !.Misses = @ + 1]
          /\ ret' = [ret EXCEPT ![p] = "conn"]
          /\ pc' = [pc EXCEPT ![p] = "holding"]
  /\ UNCHANGED << opt, lateGet, pooledArg, newConns, closed, queue, poolVars, dialErrorsNum, lastDialError,
                  thriftConn, now, cn, bgVars, gets >>

\* Get, lines 341-347: a stale connection goes to CloseConn, any other one is
\* a hit and is returned
IsStale(p) ==
  /\ pc[p] = "isStale"
  /\ IF isStaleConn(cn[p])
     THEN /\ pc' = [pc EXCEPT ![p] = "closeConn"]
          /\ UNCHANGED << stats, ret >>
     ELSE /\ stats' = [stats EXCEPT !.Hits = @ + 1]
          /\ ret' = [ret EXCEPT ![p] = "conn"]
          /\ pc' = [pc EXCEPT ![p] = "holding"]
  /\ UNCHANGED << opt, lateGet, pooledArg, newConns, closed, queue, poolVars, dialErrorsNum, lastDialError,
                  thriftConn, now, cn, bgVars, gets >>

\* CloseConn, line 297: removeConn
CloseConnRemove(p) ==
  /\ pc[p] = "closeConn"
  /\ LET r == removeConn(cn[p])
     IN /\ conns' = r[1]
        /\ poolSize' = r[2]
        /\ idleConnsLen' = r[3]
        /\ addIdle' = Bump(addIdle, "start", r[4])
  /\ pc' = [pc EXCEPT ![p] = "closeConnClose"]
  /\ UNCHANGED << opt, lateGet, pooledArg, newConns, closed, queue, idleConns, dialErrorsNum, lastDialError,
                  stats, thriftConn, now, cn, ret, reaper, addIdleCn, tryDials, gets >>

\* CloseConn, line 298: cn.Close(); Get continues its loop
CloseConnClose(p) ==
  /\ pc[p] = "closeConnClose"
  /\ thriftConn' = ConnClose(thriftConn, cn[p])
  /\ cn' = [cn EXCEPT ![p] = 0]
  /\ pc' = [pc EXCEPT ![p] = "popIdle"]
  /\ UNCHANGED << opt, lateGet, pooledArg, newConns, closed, queue, poolVars, dialErrorsNum, lastDialError,
                  stats, now, ret, bgVars, gets >>

\* newConn, line 205: the closed check
NewConnClosed(p) ==
  /\ pc[p] = "newConn"
  /\ IF closed = 1
     THEN /\ ret' = [ret EXCEPT ![p] = "ErrClosed"]
          /\ pc' = [pc EXCEPT ![p] = "freeTurn"]
     ELSE /\ ret' = ret
          /\ pc' = [pc EXCEPT ![p] = "breaker"]
  /\ UNCHANGED << opt, lateGet, pooledArg, newConns, closed, queue, poolVars, dialErrorsNum, lastDialError,
                  stats, thriftConn, now, cn, bgVars, gets >>

\* newConn, line 209: with the breaker open the cached error is returned
\* and nothing is dialed (every configuration of Configs has PoolSize >= 1,
\* so an open breaker has seen a failure and the cached error is not nil)
NewConnBreaker(p) ==
  /\ pc[p] = "breaker"
  /\ IF breakerOpen
     THEN /\ ret' = [ret EXCEPT ![p] = lastDialError]
          /\ pc' = [pc EXCEPT ![p] = "freeTurn"]
     ELSE /\ ret' = ret
          /\ pc' = [pc EXCEPT ![p] = "dial"]
  /\ UNCHANGED << opt, lateGet, pooledArg, newConns, closed, queue, poolVars, dialErrorsNum, lastDialError,
                  stats, thriftConn, now, cn, bgVars, gets >>

\* newConn, lines 213, 221: the dial succeeds
NewConnDialOk(p) ==
  /\ pc[p] = "dial"
  /\ Len(thriftConn) < MaxDials
  /\ thriftConn' = Append(thriftConn, NewThriftConn(now, TRUE))
  /\ cn' = [cn EXCEPT ![p] = Len(thriftConn) + 1]
  /\ pc' = [pc EXCEPT ![p] = "register"]
  /\ UNCHANGED << opt, lateGet, pooledArg, newConns, closed, queue, poolVars, dialErrorsNum, lastDialError,
                  stats, now, ret, bgVars, gets >>

\* newConn, lines 213-215: the dial fails, the error is cached
NewConnDialFail(p) ==
  /\ pc[p] = "dial"
  /\ lastDialError' = "dialErr"
  /\ pc' = [pc EXCEPT ![p] = "dialFailed"]
  /\ UNCHANGED << opt, lateGet, pooledArg, newConns, closed, queue, poolVars, dialErrorsNum, stats,
                  thriftConn, now, cn, ret, bgVars, gets >>

\* newConn, lines 216-219: the failure is counted; reaching PoolSize starts tryDial
NewConnFailed(p) ==
  /\ pc[p] = "dialFailed"
  /\ dialErrorsNum' = dialErrorsNum + 1
  /\ tryDials' = IF dialErrorsNum + 1 = opt.PoolSize
                 THEN Bump(tryDials, "start", 1) ELSE tryDials
  /\ ret' = [ret EXCEPT ![p] = "dialErr"]
  /\ pc' = [pc EXCEPT ![p] = "freeTurn"]
  /\ UNCHANGED << opt, lateGet, pooledArg, newConns, closed, queue, poolVars, lastDialError, stats,
                  thriftConn, now, cn, reaper, addIdle, addIdleCn, gets >>

\* NewConn, lines 308-318: the connection is registered and returned
Register(p) ==
  /\ pc[p] = "register"
  /\ conns' = Append(conns, cn[p])
  /\ IF registerPooled(poolSize)
     THEN poolSize' = poolSize + 1 /\ thriftConn' = thriftConn
     ELSE poolSize' = poolSize /\ thriftConn' = [thriftConn EXCEPT ![cn[p]].pooled = FALSE]
  /\ ret' = [ret EXCEPT ![p] = "conn"]
  /\ pc' = [pc EXCEPT ![p] = "holding"]
  /\ UNCHANGED << opt, lateGet, pooledArg, newConns, closed, queue, idleConns, idleConnsLen, dialErrorsNum,
                  lastDialError, stats, now, cn, bgVars, gets >>

\* Get, lines 353-356: freeTurn, then the error is returned
GetFreeTurn(p) ==
  /\ pc[p] = "freeTurn"
  /\ queueHasToken
  /\ queue' = queue - 1
  /\ pc' = [pc EXCEPT ![p] = "idle"]
  /\ lateGet' = lateGet \ {p}
  /\ UNCHANGED << opt, pooledArg, newConns, closed, poolVars, dialErrorsNum, lastDialError, stats,
                  thriftConn, now, cn, ret, bgVars, gets >>


(* -------------------------------------------------------- Put and Remove *)
\* (mutant) Put without the test of cn.pooled
PutUnguarded(p) ==
  /\ pc[p] = "holding"
  /\ thriftConn' = [thriftConn EXCEPT ![cn[p]].usedTime = now]
  /\ idleConns' = Append(idleConns, cn[p])
  /\ idleConnsLen' = idleConnsLen + 1
  /\ pc' = [pc EXCEPT ![p] = "putFree"]
  /\ lateGet' = lateGet \ {p}
  /\ UNCHANGED << opt, pooledArg, newConns, closed, queue, conns, poolSize, dialErrorsNum,
                  lastDialError, stats, now, cn, ret, bgVars, gets >>

\* Put, lines 368-372: a pooled connection is appended to the idle list
Put(p) ==
  /\ pc[p] = "holding"
  /\ thriftConn[cn[p]].pooled
  /\ thriftConn' = [thriftConn EXCEPT ![cn[p]].usedTime = now]
  /\ idleConns' = Append(idleConns, cn[p])
  /\ idleConnsLen' = idleConnsLen + 1
  /\ pc' = [pc EXCEPT ![p] = "putFree"]
  /\ lateGet' = lateGet \ {p}
  /\ UNCHANGED << opt, pooledArg, newConns, closed, queue, conns, poolSize, dialErrorsNum,
                  lastDialError, stats, now, cn, ret, bgVars, gets >>

\* Put, line 373: freeTurn
PutFreeTurn(p) ==
  /\ pc[p] = "putFree"
  /\ queueHasToken
  /\ queue' = queue - 1
  /\ cn' = [cn EXCEPT ![p] = 0]
  /\ pc' = [pc EXCEPT ![p] = "idle"]
  /\ UNCHANGED << opt, lateGet, pooledArg, newConns, closed, poolVars, dialErrorsNum, lastDialError, stats,
                  thriftConn, now, ret, bgVars, gets >>

\* Put, lines 363-366: a connection that is not pooled goes to Remove
PutOverflow(p) ==
  /\ pc[p] = "holding"
  /\ ~thriftConn[cn[p]].pooled
  /\ LET r == removeConn(cn[p])
     IN /\ conns' = r[1]
        /\ poolSize' = r[2]
        /\ idleConnsLen' = r[3]
        /\ addIdle' = Bump(addIdle, "start", r[4])
  /\ pc' = [pc EXCEPT ![p] = "removeFree"]
  /\ lateGet' = lateGet \ {p}
  /\ UNCHANGED << opt, pooledArg, newConns, closed, queue, idleConns, dialErrorsNum, lastDialError,
                  stats, thriftConn, now, cn, ret, reaper, addIdleCn, tryDials, gets >>

\* Remove, line 290: removeConn
Remove(p) ==
  /\ pc[p] = "holding"
  /\ LET r == removeConn(cn[p])
     IN /\ conns' = r[1]
        /\ poolSize' = r[2]
        /\ idleConnsLen' = r[3]
        /\ addIdle' = Bump(addIdle, "start", r[4])
  /\ pc' = [pc EXCEPT ![p] = "removeFree"]
  /\ lateGet' = lateGet \ {p}
  /\ UNCHANGED << opt, pooledArg, newConns, closed, queue, idleConns, dialErrorsNum, lastDialError,
                  stats, thriftConn, now, cn, ret, reaper, addIdleCn, tryDials, gets >>

\* Remove, line 291: freeTurn
RemoveFreeTurn(p) ==
  /\ pc[p] = "removeFree"
  /\ queueHasToken
  /\ queue' = queue - 1
  /\ pc' = [pc EXCEPT ![p] = "removeClose"]
  /\ UNCHANGED << opt, lateGet, pooledArg, newConns, closed, poolVars, dialErrorsNum, lastDialError, stats,
                  thriftConn, now, cn, ret, bgVars, gets >>

\* Remove, line 292: cn.Close()
RemoveClose(p) ==
  /\ pc[p] = "removeClose"
  /\ thriftConn' = ConnClose(thriftConn, cn[p])
  /\ cn' = [cn EXCEPT ![p] = 0]
  /\ pc' = [pc EXCEPT ![p] = "idle"]
  /\ UNCHANGED << opt, lateGet, pooledArg, newConns, closed, queue, poolVars, dialErrorsNum, lastDialError,
                  stats, now, ret, bgVars, gets >>

(* ---------------------------------------------------------------- Close *)
\* (mutant) Close that stores _closed without comparing
CloseNoCAS(p) ==
  /\ pc[p] = "idle"
  /\ closed' = 1
  /\ ret' = [ret EXCEPT ![p] = "none"]
  /\ pc' = [pc EXCEPT ![p] = "teardown"]
  /\ UNCHANGED << opt, lateGet, pooledArg, newConns, queue, poolVars, dialErrorsNum, lastDialError, stats,
                  thriftConn, now, cn, bgVars, gets >>

\* Close, line 393: the compare-and-swap of _closed; the loser returns ErrClosed
Close(p) ==
  /\ pc[p] = "idle"
  /\ IF closed = 0
     THEN /\ closed' = 1
          /\ ret' = [ret EXCEPT ![p] = "none"]
          /\ pc' = [pc EXCEPT ![p] = "teardown"]
     ELSE /\ closed' = closed
          /\ ret' = [ret EXCEPT ![p] = "CloseErrClosed"]
          /\ pc' = pc
  /\ UNCHANGED << opt, lateGet, pooledArg, newConns, queue, poolVars, dialErrorsNum, lastDialError, stats,
                  thriftConn, now, cn, bgVars, gets >>

\* Close, lines 398-410: under the mutex every tracked connection is closed
\* and the tracking structures are cleared
CloseTeardown(p) ==
  /\ pc[p] = "teardown"
  /\ IF 0 \in Range(conns)
     THEN \* cn.Close() on a nil element of conns panics inside the loop
          /\ thriftConn' = ConnCloseAll(thriftConn, SubSeq(conns, 1, IndexOf(conns, 0) - 1))
          /\ pc' = [pc EXCEPT ![p] = "panic"]
          /\ UNCHANGED << poolVars, ret >>
     ELSE /\ thriftConn' = ConnCloseAll(thriftConn, conns)
          /\ conns' = << >>
          /\ poolSize' = 0
          /\ idleConns' = << >>
          /\ idleConnsLen' = 0
          /\ ret' = [ret EXCEPT ![p] = "CloseNil"]
          /\ pc' = [pc EXCEPT ![p] = "idle"]
  /\ UNCHANGED << opt, lateGet, pooledArg, newConns, closed, queue, dialErrorsNum, lastDialError, stats, now,
                  cn, bgVars, gets >>


(* --------------------------------------------------------------- reaper *)
\* reaper, lines 114-118: a tick; a closed pool ends the goroutine
ReaperTick ==
  /\ reaper.pc = "ticker"
  /\ reaper' = IF closed = 1
               THEN [reaper EXCEPT !.pc = "off"]
               ELSE [reaper EXCEPT !.pc = "getTurn", !.n = 0]
  /\ UNCHANGED << opt, lateGet, pooledArg, newConns, closed, queue, poolVars, dialErrorsNum, lastDialError,
                  stats, thriftConn, now, callerVars, addIdle, addIdleCn,
                  tryDials, gets >>

\* ReapStaleConns, line 88: getTurn blocks until the channel has room
ReaperGetTurn ==
  /\ reaper.pc = "getTurn"
  /\ queueHasRoom
  /\ queue' = queue + 1
  /\ reaper' = [reaper EXCEPT !.pc = "reap"]
  /\ UNCHANGED << opt, lateGet, pooledArg, newConns, closed, poolVars, dialErrorsNum, lastDialError, stats,
                  thriftConn, now, callerVars, addIdle, addIdleCn, tryDials, gets >>

\* (mutant) a reaper that evicts the head of the idle list whatever its age
ReaperReapAny ==
  /\ reaper.pc = "reap"
  /\ IF Len(idleConns) = 0
     THEN /\ reaper' = [reaper EXCEPT !.pc = "freeTurn", !.cn = 0]
          /\ UNCHANGED << idleConns, idleConnsLen >>
     ELSE /\ reaper' = [reaper EXCEPT !.pc = "remove", !.cn = reapStaleConn(idleConns)[1]]
          /\ idleConns' = reapStaleConn(idleConns)[2]
          /\ idleConnsLen' = idleConnsLen - 1
  /\ UNCHANGED << opt, lateGet, pooledArg, newConns, closed, queue, conns, poolSize, dialErrorsNum,
                  lastDialError, stats, thriftConn, now, callerVars, addIdle,
                  addIdleCn, tryDials, gets >>

\* ReapStaleConns, lines 90-92: reapStaleConn under the mutex
ReaperReap ==
  /\ reaper.pc = "reap"
  /\ IF Len(idleConns) = 0 \/ ~isStaleConn(reapStaleConn(idleConns)[1])
     THEN /\ reaper' = [reaper EXCEPT !.pc = "freeTurn", !.cn = 0]
          /\ UNCHANGED << idleConns, idleConnsLen >>
     ELSE /\ reaper' = [reaper EXCEPT !.pc = "remove", !.cn = reapStaleConn(idleConns)[1]]
          /\ idleConns' = reapStaleConn(idleConns)[2]
          /\ idleConnsLen' = idleConnsLen - 1
  /\ UNCHANGED << opt, lateGet, pooledArg, newConns, closed, queue, conns, poolSize, dialErrorsNum,
                  lastDialError, stats, thriftConn, now, callerVars, addIdle,
                  addIdleCn, tryDials, gets >>

\* ReapStaleConns, lines 94-96: removeConn of the reaped connection
ReaperRemove ==
  /\ reaper.pc = "remove"
  /\ LET r == removeConn(reaper.cn)
     IN /\ conns' = r[1]
        /\ poolSize' = r[2]
        /\ idleConnsLen' = r[3]
        /\ addIdle' = Bump(addIdle, "start", r[4])
  /\ reaper' = [reaper EXCEPT !.pc = "freeTurn"]
  /\ UNCHANGED << opt, lateGet, pooledArg, newConns, closed, queue, idleConns, dialErrorsNum, lastDialError,
                  stats, thriftConn, now, callerVars, addIdleCn, tryDials, gets >>

\* ReapStaleConns, lines 98-105: freeTurn; with nothing reaped the pass ends
\* and the reaper adds its count to StaleConns (line 123)
ReaperFreeTurn ==
  /\ reaper.pc = "freeTurn"
  /\ queueHasToken
  /\ queue' = queue - 1
  /\ IF reaper.cn # 0
     THEN /\ reaper' = [reaper EXCEPT !.pc = "close"]
          /\ stats' = stats
     ELSE /\ reaper' = [reaper EXCEPT !.pc = "ticker", !.n = 0]
          /\ stats' = [stats EXCEPT !.StaleConns = @ + reaper.n]
  /\ UNCHANGED << opt, lateGet, pooledArg, newConns, closed, poolVars, dialErrorsNum, lastDialError,
                  thriftConn, now, callerVars, addIdle, addIdleCn, tryDials, gets >>

\* ReapStaleConns, lines 100-102: cn.Close(), n++, and the loop goes on
ReaperClose ==
  /\ reaper.pc = "close"
  /\ thriftConn' = ConnClose(thriftConn, reaper.cn)
  /\ reaper' = [pc |-> "getTurn", cn |-> 0, n |-> reaper.n + 1]
  /\ UNCHANGED << opt, lateGet, pooledArg, newConns, closed, queue, poolVars, dialErrorsNum, lastDialError,
                  stats, now, callerVars, addIdle, addIdleCn, tryDials, gets >>

(* ---------------------------------------------------------- addIdleConn *)
\* addIdleConn -> newConn, line 205: the closed check
AddIdleStart ==
  /\ addIdle["start"] > 0
  /\ addIdle' = IF closed = 1
                THEN Bump(addIdle, "start", -1)
                ELSE Bump(Bump(addIdle, "start", -1), "breaker", 1)
  /\ UNCHANGED << opt, lateGet, pooledArg, newConns, closed, queue, poolVars, dialErrorsNum, lastDialError,
                  stats, thriftConn, now, callerVars, reaper, addIdleCn,
                  tryDials, gets >>

\* addIdleConn -> newConn, line 209: the breaker test
AddIdleBreaker ==
  /\ addIdle["breaker"] > 0
  /\ addIdle' = IF breakerOpen
                THEN Bump(addIdle, "breaker", -1)
                ELSE Bump(Bump(addIdle, "breaker", -1), "dial", 1)
  /\ UNCHANGED << opt, lateGet, pooledArg, newConns, closed, queue, poolVars, dialErrorsNum, lastDialError,
                  stats, thriftConn, now, callerVars, reaper, addIdleCn,
                  tryDials, gets >>

\* addIdleConn -> newConn, lines 213, 221: the dial succeeds
AddIdleDialOk ==
  /\ addIdle["dial"] > 0
  /\ Len(thriftConn) < MaxDials
  /\ thriftConn' = Append(thriftConn, NewThriftConn(now, TRUE))
  /\ addIdleCn' = addIdleCn \cup {Len(thriftConn) + 1}
  /\ addIdle' = Bump(addIdle, "dial", -1)
  /\ UNCHANGED << opt, lateGet, pooledArg, newConns, closed, queue, poolVars, dialErrorsNum, lastDialError,
                  stats, now, callerVars, reaper, tryDials, gets >>

\* addIdleConn -> newConn, lines 213-215: the dial fails
AddIdleDialFail ==
  /\ addIdle["dial"] > 0
  /\ lastDialError' = "dialErr"
  /\ addIdle' = Bump(Bump(addIdle, "dial", -1), "failed", 1)
  /\ UNCHANGED << opt, lateGet, pooledArg, newConns, closed, queue, poolVars, dialErrorsNum, stats,
                  thriftConn, now, callerVars, reaper, addIdleCn, tryDials, gets >>

\* addIdleConn -> newConn, lines 216-219, and addIdleConn's return on the
\* error (lines 227-229): nothing is given back
AddIdleFailed ==
  /\ addIdle["failed"] > 0
  /\ dialErrorsNum' = dialErrorsNum + 1
  /\ tryDials' = IF dialErrorsNum + 1 = opt.PoolSize
                 THEN Bump(tryDials, "start", 1) ELSE tryDials
  /\ addIdle' = Bump(addIdle, "failed", -1)
  /\ UNCHANGED << opt, lateGet, pooledArg, newConns, closed, queue, poolVars, lastDialError, stats,
                  thriftConn, now, callerVars, reaper, addIdleCn, gets >>

\* (mutant) addIdleConn that registers its connection in conns only
AddIdleRegisterConnsOnly(c) ==
  /\ c \in addIdleCn
  /\ conns' = Append(conns, c)
  /\ addIdleCn' = addIdleCn \ {c}
  /\ UNCHANGED << opt, lateGet, pooledArg, newConns, closed, queue, idleConns, poolSize,
                  idleConnsLen, dialErrorsNum, lastDialError, stats, thriftConn,
                  now, callerVars, reaper, addIdle, tryDials, gets >>

\* addIdleConn, lines 231-234: the connection joins conns and idleConns
AddIdleRegister(c) ==
  /\ c \in addIdleCn
  /\ conns' = Append(conns, c)
  /\ idleConns' = Append(idleConns, c)
  /\ addIdleCn' = addIdleCn \ {c}
  /\ UNCHANGED << opt, lateGet, pooledArg, newConns, closed, queue, poolSize, idleConnsLen, dialErrorsNum,
                  lastDialError, stats, thriftConn, now, callerVars, reaper,
                  addIdle, tryDials, gets >>

(* -------------------------------------------------------------- tryDial *)
\* tryDial, lines 187-189: the closed check at the head of the loop
TryDialStart ==
  /\ tryDials["start"] > 0
  /\ tryDials' = IF closed = 1
                 THEN Bump(tryDials, "start", -1)
                 ELSE Bump(Bump(tryDials, "start", -1), "dial", 1)
  /\ UNCHANGED << opt, lateGet, pooledArg, newConns, closed, queue, poolVars, dialErrorsNum, lastDialError,
                  stats, thriftConn, now, callerVars, reaper, addIdle,
                  addIdleCn, gets >>

\* tryDial, lines 191-196: the dial fails, the error is cached, and the loop
\* starts over after the sleep
TryDialFail ==
  /\ tryDials["dial"] > 0
  /\ lastDialError' = "dialErr"
  /\ tryDials' = Bump(Bump(tryDials, "dial", -1), "start", 1)
  /\ UNCHANGED << opt, lateGet, pooledArg, newConns, closed, queue, poolVars, dialErrorsNum, stats,
                  thriftConn, now, callerVars, reaper, addIdle, addIdleCn, gets >>

\* tryDial, line 191: the dial succeeds
TryDialOk ==
  /\ tryDials["dial"] > 0
  /\ tryDials' = Bump(Bump(tryDials, "dial", -1), "store", 1)
  /\ UNCHANGED << opt, lateGet, pooledArg, newConns, closed, queue, poolVars, dialErrorsNum, lastDialError,
                  stats, thriftConn, now, callerVars, reaper, addIdle,
                  addIdleCn, gets >>

\* (mutant) tryDial that returns without resetting dialErrorsNum
TryDialStoreNothing ==
  /\ tryDials["store"] > 0
  /\ tryDials' = Bump(Bump(tryDials, "store", -1), "close", 1)
  /\ UNCHANGED << opt, lateGet, pooledArg, newConns, closed, queue, poolVars,
                  dialErrorsNum, lastDialError, stats, thriftConn, now,
                  callerVars, reaper, addIdle, addIdleCn, gets >>

\* tryDial, line 198: dialErrorsNum is reset
TryDialStore ==
  /\ tryDials["store"] > 0
  /\ dialErrorsNum' = 0
  /\ tryDials' = Bump(Bump(tryDials, "store", -1), "close", 1)
  /\ UNCHANGED << opt, lateGet, pooledArg, newConns, closed, queue, poolVars, lastDialError, stats,
                  thriftConn, now, callerVars, reaper, addIdle, addIdleCn, gets >>

\* tryDial, lines 199-200: the probe connection is closed and tryDial returns
TryDialClose ==
  /\ tryDials["close"] > 0
  /\ tryDials' = Bump(tryDials, "close", -1)
  /\ UNCHANGED << opt, lateGet, pooledArg, newConns, closed, queue, poolVars, dialErrorsNum, lastDialError,
                  stats, thriftConn, now, callerVars, reaper, addIdle,
                  addIdleCn, gets >>

(* ----------------------------------------- NewConn and CloseConn, called *)
(* ----------------------------------------- directly (both are exported)   *)
\* direct NewConn calls started, over all callers
MaxNewConns == 2

\* NewConn(pooled) -> newConn, line 205: the closed check of a direct call
NewConnCall(p, pooled) ==
  /\ pc[p] = "idle"
  /\ newConns < MaxNewConns
  /\ newConns' = newConns + 1
  /\ pooledArg' = [pooledArg EXCEPT ![p] = pooled]
  /\ IF closed = 1
     THEN /\ ret' = [ret EXCEPT ![p] = "ErrClosed"]
          /\ pc' = pc
     ELSE /\ ret' = [ret EXCEPT ![p] = "none"]
          /\ pc' = [pc EXCEPT ![p] = "ncBreaker"]
  /\ UNCHANGED << opt, lateGet, closed, queue, poolVars, dialErrorsNum,
                  lastDialError, stats, thriftConn, now, cn, bgVars, gets >>

\* newConn, lines 209-211: with dialErrorsNum >= PoolSize newConn returns
\* (nil, getLastDialError()); NewConn (line 304) returns on a non-nil error
\* and goes on to register the nil connection when the cached error is nil
NewConnCallBreaker(p) ==
  /\ pc[p] = "ncBreaker"
  /\ IF breakerOpen
     THEN IF lastDialError = "nil"
          THEN /\ ret' = ret
               /\ pc' = [pc EXCEPT ![p] = "ncRegister"]
          ELSE /\ ret' = [ret EXCEPT ![p] = lastDialError]
               /\ pc' = [pc EXCEPT ![p] = "idle"]
     ELSE /\ ret' = ret
          /\ pc' = [pc EXCEPT ![p] = "ncDial"]
  /\ UNCHANGED << opt, lateGet, pooledArg, newConns, closed, queue, poolVars,
                  dialErrorsNum, lastDialError, stats, thriftConn, now, cn,
                  bgVars, gets >>

\* newConn, lines 213, 221: the dial succeeds, conn.pooled = pooled
NewConnCallDialOk(p) ==
  /\ pc[p] = "ncDial"
  /\ Len(thriftConn) < MaxDials
  /\ thriftConn' = Append(thriftConn, NewThriftConn(now, pooledArg[p]))
  /\ cn' = [cn EXCEPT ![p] = Len(thriftConn) + 1]
  /\ pc' = [pc EXCEPT ![p] = "ncRegister"]
  /\ UNCHANGED << opt, lateGet, pooledArg, newConns, closed, queue, poolVars,
                  dialErrorsNum, lastDialError, stats, now, ret, bgVars, gets >>

\* newConn, lines 213-215: the dial fails, the error is cached
NewConnCallDialFail(p) ==
  /\ pc[p] = "ncDial"
  /\ lastDialError' = "dialErr"
  /\ pc' = [pc EXCEPT ![p] = "ncDialFailed"]
  /\ UNCHANGED << opt, lateGet, pooledArg, newConns, closed, queue, poolVars,
                  dialErrorsNum, stats, thriftConn, now, cn, ret, bgVars, gets >>

\* newConn, lines 216-219, and NewConn's return of the error (line 305)
NewConnCallFailed(p) ==
  /\ pc[p] = "ncDialFailed"
  /\ dialErrorsNum' = dialErrorsNum + 1
  /\ tryDials' = IF dialErrorsNum + 1 = opt.PoolSize
                 THEN Bump(tryDials, "start", 1) ELSE tryDials
  /\ ret' = [ret EXCEPT ![p] = "dialErr"]
  /\ pc' = [pc EXCEPT ![p] = "idle"]
  /\ UNCHANGED << opt, lateGet, pooledArg, newConns, closed, queue, poolVars,
                  lastDialError, stats, thriftConn, now, cn, reaper, addIdle,
                  addIdleCn, gets >>

\* NewConn, lines 308-318: cn (nil after newConn's (nil, nil)) is appended to
\* conns; with pooled set and poolSize >= PoolSize the write of cn.pooled
\* panics on a nil cn; otherwise (cn, nil) is returned
NewConnCallRegister(p) ==
  /\ pc[p] = "ncRegister"
  /\ conns' = Append(conns, cn[p])
  /\ IF pooledArg[p] /\ registerPooled(poolSize)
     THEN /\ poolSize' = poolSize + 1
          /\ thriftConn' = thriftConn
          /\ ret' = [ret EXCEPT ![p] = IF cn[p] = 0 THEN "nil" ELSE "conn"]
          /\ pc' = [pc EXCEPT ![p] = IF cn[p] = 0 THEN "idle" ELSE "owning"]
     ELSE IF pooledArg[p] /\ cn[p] = 0
     THEN /\ poolSize' = poolSize
          /\ thriftConn' = thriftConn
          /\ ret' = ret
          /\ pc' = [pc EXCEPT ![p] = "panic"]
     ELSE /\ poolSize' = poolSize
          /\ thriftConn' = IF pooledArg[p]
                           THEN [thriftConn EXCEPT ![cn[p]].pooled = FALSE]
                           ELSE thriftConn
          /\ ret' = [ret EXCEPT ![p] = IF cn[p] = 0 THEN "nil" ELSE "conn"]
          /\ pc' = [pc EXCEPT ![p] = IF cn[p] = 0 THEN "idle" ELSE "owning"]
  /\ UNCHANGED << opt, lateGet, pooledArg, newConns, closed, queue, idleConns,
                  idleConnsLen, dialErrorsNum, lastDialError, stats, now, cn,
                  bgVars, gets >>

\* CloseConn, line 297, on the connection a direct NewConn returned
CloseConnCall(p) ==
  /\ pc[p] = "owning"
  /\ LET r == removeConn(cn[p])
     IN /\ conns' = r[1]
        /\ poolSize' = r[2]
        /\ idleConnsLen' = r[3]
        /\ addIdle' = Bump(addIdle, "start", r[4])
  /\ pc' = [pc EXCEPT ![p] = "ccClose"]
  /\ UNCHANGED << opt, lateGet, pooledArg, newConns, closed, queue, idleConns,
                  dialErrorsNum, lastDialError, stats, thriftConn, now, cn, ret,
                  reaper, addIdleCn, tryDials, gets >>

\* CloseConn, line 298: cn.Close()
CloseConnCallClose(p) ==
  /\ pc[p] = "ccClose"
  /\ thriftConn' = ConnClose(thriftConn, cn[p])
  /\ cn' = [cn EXCEPT ![p] = 0]
  /\ pc' = [pc EXCEPT ![p] = "idle"]
  /\ UNCHANGED << opt, lateGet, pooledArg, newConns, closed, queue, poolVars,
                  dialErrorsNum, lastDialError, stats, now, ret, bgVars, gets >>

\* Remove, line 290, on the connection a direct NewConn returned: the caller
\* never passed the gate for it
RemoveCall(p) ==
  /\ pc[p] = "owning"
  /\ LET r == removeConn(cn[p])
     IN /\ conns' = r[1]
        /\ poolSize' = r[2]
        /\ idleConnsLen' = r[3]
        /\ addIdle' = Bump(addIdle, "start", r[4])
  /\ pc' = [pc EXCEPT ![p] = "rmFree"]
  /\ UNCHANGED << opt, lateGet, pooledArg, newConns, closed, queue, idleConns,
                  dialErrorsNum, lastDialError, stats, thriftConn, now, cn, ret,
                  reaper, addIdleCn, tryDials, gets >>

\* Remove, line 291: freeTurn, whoever sent the token it receives
RemoveCallFreeTurn(p) ==
  /\ pc[p] = "rmFree"
  /\ queueHasToken
  /\ queue' = queue - 1
  /\ pc' = [pc EXCEPT ![p] = "rmClose"]
  /\ UNCHANGED << opt, lateGet, pooledArg, newConns, closed, poolVars,
                  dialErrorsNum, lastDialError, stats, thriftConn, now, cn, ret,
                  bgVars, gets >>

\* Remove, line 292: cn.Close()
RemoveCallClose(p) ==
  /\ pc[p] = "rmClose"
  /\ thriftConn' = ConnClose(thriftConn, cn[p])
  /\ cn' = [cn EXCEPT ![p] = 0]
  /\ pc' = [pc EXCEPT ![p] = "idle"]
  /\ UNCHANGED << opt, lateGet, pooledArg, newConns, closed, queue, poolVars,
                  dialErrorsNum, lastDialError, stats, now, ret, bgVars, gets >>

(* ------------------------------------------- hBaseCMD passthrough calls *)
\* hBaseCMD.Append and the other operations, after thriftConnPool.Get has
\* returned a connection: the remote call on its client, which fails or not
CmdCall(p, failed) ==
  /\ pc[p] = "holding"
  /\ pc' = [pc EXCEPT ![p] = IF failed THEN "calledErr" ELSE "calledOk"]
  /\ UNCHANGED << opt, lateGet, pooledArg, newConns, closed, queue, poolVars,
                  dialErrorsNum, lastDialError, stats, thriftConn, now, cn, ret,
                  bgVars, gets >>

\* the deferred thriftConnPool.Put(cn) runs when the operation returns,
\* whatever err is: Put up to its freeTurn, or Remove up to its freeTurn for
\* a connection that is not pooled
CmdPut(p) ==
  /\ pc[p] \in {"calledOk", "calledErr"}
  /\ IF thriftConn[cn[p]].pooled
     THEN /\ thriftConn' = [thriftConn EXCEPT ![cn[p]].usedTime = now]
          /\ idleConns' = Append(idleConns, cn[p])
          /\ idleConnsLen' = idleConnsLen + 1
          /\ pc' = [pc EXCEPT ![p] = "putFree"]
          /\ UNCHANGED << conns, poolSize, addIdle >>
     ELSE /\ LET r == removeConn(cn[p])
             IN /\ conns' = r[1]
                /\ poolSize' = r[2]
                /\ idleConnsLen' = r[3]
                /\ addIdle' = Bump(addIdle, "start", r[4])
          /\ pc' = [pc EXCEPT ![p] = "removeFree"]
          /\ UNCHANGED << thriftConn, idleConns >>
  /\ lateGet' = lateGet \ {p}
  /\ UNCHANGED << opt, pooledArg, newConns, closed, queue, dialErrorsNum,
                  lastDialError, stats, now, cn, ret, reaper, addIdleCn,
                  tryDials, gets >>

(* ----------------------------------------------------------------- time *)
\* the clock advances
Tick ==
  /\ now < MaxTime
  /\ now' = now + 1
  /\ UNCHANGED << opt, lateGet, pooledArg, newConns, closed, queue, poolVars, dialErrorsNum, lastDialError,
                  stats, thriftConn, callerVars, bgVars, gets >>

(* ----------------------------------------------------------------- Next *)
CallerNext(p) ==
  \/ Get(p) \/ WaitTurn(p) \/ WaitTurnBlocked(p) \/ WaitTurnLate(p)
  \/ WaitTurnTimeout(p) \/ PopIdle(p) \/ IsStale(p) \/ CloseConnRemove(p)
  \/ CloseConnClose(p) \/ NewConnClosed(p) \/ NewConnBreaker(p)
  \/ NewConnDialOk(p) \/ NewConnDialFail(p) \/ NewConnFailed(p)
  \/ Register(p) \/ GetFreeTurn(p)
  \/ Put(p) \/ PutFreeTurn(p) \/ PutOverflow(p)
  \/ Remove(p) \/ RemoveFreeTurn(p) \/ RemoveClose(p)
  \/ Close(p) \/ CloseTeardown(p)

ReaperNext ==
  \/ ReaperTick \/ ReaperGetTurn \/ ReaperReap \/ ReaperRemove
  \/ ReaperFreeTurn \/ ReaperClose

AddIdleNext ==
  \/ AddIdleStart \/ AddIdleBreaker \/ AddIdleDialOk \/ AddIdleDialFail
  \/ AddIdleFailed \/ \E c \in addIdleCn : AddIdleRegister(c)

TryDialNext ==
  \/ TryDialStart \/ TryDialFail \/ TryDialOk \/ TryDialStore \/ TryDialClose

Next ==
  \/ \E p \in Callers : CallerNext(p)
  \/ ReaperNext
  \/ AddIdleNext
  \/ TryDialNext
  \/ Tick

Spec == Init /\ [][Next]_vars

(* ------------------------------------------- PoolSize left at its zero value *)
\* NewHBase(&Options{Addr: ...}) (README; part_001 lines 167-172) passes the
\* Options on as they are: PoolSize = 0 makes tp.queue an unbuffered channel.
\* A send on it needs a goroutine receiving in freeTurn at the same moment,
\* and freeTurn is reached only after a send, so no send ever succeeds and
\* queueHasRoom (queue < 0) is never true.  The second configuration is a
\* valid one without background goroutines (MinIdleConns = 0, no reaper).
ZeroConfigs ==
  { [PoolSize |-> 0, MinIdleConns |-> 0, IdleTimeout |-> 1, IdleCheckFrequency |-> -1],
    [PoolSize |-> 1, MinIdleConns |-> 0, IdleTimeout |-> 1, IdleCheckFrequency |-> -1] }

InitZero == \E o \in ZeroConfigs : NewThriftConnPool(o)

NewConnCallNext(p) ==
  \/ \E pooled \in BOOLEAN : NewConnCall(p, pooled)
  \/ NewConnCallBreaker(p) \/ NewConnCallDialOk(p) \/ NewConnCallDialFail(p)
  \/ NewConnCallFailed(p) \/ NewConnCallRegister(p)
  \/ CloseConnCall(p) \/ CloseConnCallClose(p)
  \/ RemoveCall(p) \/ RemoveCallFreeTurn(p) \/ RemoveCallClose(p)

\* the callers also call NewConn, CloseConn and Remove directly; neither the reaper
\* nor addIdleConn exists in these configurations
NextZero ==
  \/ \E p \in Callers : CallerNext(p)
  \/ \E p \in Callers : NewConnCallNext(p)
  \/ TryDialNext
  \/ Tick

SpecZero == InitZero /\ [][NextZero]_vars


(* ------------------------------------------------ the breaker's recovery *)
\* pools without replenishment, reaper or idle timeout: the caller steps that
\* can happen on them, and tryDial
HealConfigs ==
  { [PoolSize |-> 1, MinIdleConns |-> 0, IdleTimeout |-> 0, IdleCheckFrequency |-> -1],
    [PoolSize |-> 2, MinIdleConns |-> 0, IdleTimeout |-> 0, IdleCheckFrequency |-> -1] }

InitHeal == \E o \in HealConfigs : NewThriftConnPool(o)

CallerHealNext(p) ==
  \/ Get(p) \/ WaitTurn(p) \/ WaitTurnBlocked(p) \/ WaitTurnLate(p)
  \/ WaitTurnTimeout(p) \/ PopIdle(p) \/ IsStale(p)
  \/ NewConnClosed(p) \/ NewConnBreaker(p)
  \/ NewConnDialOk(p) \/ NewConnDialFail(p) \/ NewConnFailed(p)
  \/ Register(p) \/ GetFreeTurn(p)
  \/ Put(p) \/ PutFreeTurn(p)
  \/ Remove(p) \/ RemoveFreeTurn(p) \/ RemoveClose(p)
  \/ Close(p) \/ CloseTeardown(p)

NextHeal ==
  \/ \E p \in Callers : CallerHealNext(p)
  \/ TryDialNext

\* the tryDial goroutine is scheduled (weak fairness of its steps), and the
\* endpoint becomes and stays reachable, so that the dials tryDial repeats
\* every second do not fail for ever (strong fairness of the successful dial)
SpecHeal ==
  /\ InitHeal
  /\ [][NextHeal]_vars
  /\ WF_vars(TryDialStart)
  /\ SF_vars(TryDialOk)
  /\ WF_vars(TryDialStore)

(* ------------------------------------------------ the reaper, scheduled *)
\* one slot, one connection kept idle by the replenishment, and the reaper
ReapConfigs ==
  { [PoolSize |-> 1, MinIdleConns |-> 1, IdleTimeout |-> 1, IdleCheckFrequency |-> 1] }

InitReap == \E o \in ReapConfigs : NewThriftConnPool(o)

\* a step inside a call in progress; starting a call (from "idle") and giving
\* a connection back (from "holding") is up to the caller
CallerStep(p) == pc[p] \notin {"idle", "holding"} /\ CallerNext(p)

\* every goroutine that can run does run: the reaper (its ticker fires and
\* ReapStaleConns proceeds whenever it is not blocked), the calls in progress,
\* addIdleConn and tryDial.  How long a caller keeps a connection is not
\* constrained.
SpecReap ==
  /\ InitReap
  /\ [][Next]_vars
  /\ WF_vars(ReaperNext)
  /\ \A p \in Callers : WF_vars(CallerStep(p))
  /\ WF_vars(AddIdleNext)
  /\ WF_vars(TryDialNext)

(* ----------------------------------------- two idle connections, reaped *)
\* two slots, an idle timeout and the reaper, without replenishment: the idle
\* list the reaper inspects can hold two connections of different age
LruConfigs ==
  { [PoolSize |-> 2, MinIdleConns |-> 0, IdleTimeout |-> 1, IdleCheckFrequency |-> 1] }

InitAll == \E o \in Configs \cup LruConfigs : NewThriftConnPool(o)

SpecAll == InitAll /\ [][Next]_vars

(* ------------------------------- replenishment, the endpoint reachable *)
\* MinIdleConns >= 1 with one and with two slots; the first with an idle
\* timeout and the reaper
FillConfigs ==
  { [PoolSize |-> 1, MinIdleConns |-> 1, IdleTimeout |-> 1, IdleCheckFrequency |-> 1],
    [PoolSize |-> 2, MinIdleConns |-> 1, IdleTimeout |-> 0, IdleCheckFrequency |-> -1] }

InitFill == \E o \in FillConfigs : NewThriftConnPool(o)

\* the calls of an open pool whose dials succeed
CallerFillNext(p) ==
  \/ Get(p) \/ WaitTurn(p) \/ WaitTurnBlocked(p) \/ WaitTurnLate(p)
  \/ WaitTurnTimeout(p) \/ PopIdle(p) \/ IsStale(p) \/ CloseConnRemove(p)
  \/ CloseConnClose(p) \/ NewConnClosed(p) \/ NewConnBreaker(p)
  \/ NewConnDialOk(p) \/ Register(p)
  \/ Put(p) \/ PutFreeTurn(p) \/ PutOverflow(p)
  \/ Remove(p) \/ RemoveFreeTurn(p) \/ RemoveClose(p)

AddIdleFillNext ==
  \/ AddIdleStart \/ AddIdleBreaker \/ AddIdleDialOk
  \/ \E c \in addIdleCn : AddIdleRegister(c)

NextFill ==
  \/ \E p \in Callers : CallerFillNext(p)
  \/ ReaperNext
  \/ AddIdleFillNext
  \/ Tick

\* the goroutines the pool starts itself do run: addIdleConn, and the reaper
\* whenever it is not blocked at the gate.  Nothing is assumed of the callers.
SpecFill ==
  /\ InitFill
  /\ [][NextFill]_vars
  /\ WF_vars(AddIdleFillNext)
  /\ WF_vars(ReaperNext)

(* --------------------------------------------- the pool behind hBaseCMD *)
CmdConfigs ==
  { [PoolSize |-> 1, MinIdleConns |-> 0, IdleTimeout |-> 0, IdleCheckFrequency |-> -1],
    [PoolSize |-> 2, MinIdleConns |-> 0, IdleTimeout |-> 0, IdleCheckFrequency |-> -1] }

InitCmd == \E o \in CmdConfigs : NewThriftConnPool(o)

\* a passthrough operation: Get, the remote call, the deferred Put
CmdNext(p) ==
  \/ Get(p) \/ WaitTurn(p) \/ WaitTurnBlocked(p) \/ WaitTurnLate(p)
  \/ WaitTurnTimeout(p) \/ PopIdle(p) \/ IsStale(p)
  \/ NewConnClosed(p) \/ NewConnBreaker(p)
  \/ NewConnDialOk(p) \/ NewConnDialFail(p) \/ NewConnFailed(p)
  \/ Register(p) \/ GetFreeTurn(p)
  \/ \E failed \in BOOLEAN : CmdCall(p, failed)
  \/ CmdPut(p) \/ PutFreeTurn(p)

\* the pool is used through hBaseCMD only, which never closes it
NextCmd ==
  \/ \E p \in Callers : CmdNext(p)
  \/ TryDialNext
  \/ Tick

SpecCmd == InitCmd /\ [][NextCmd]_vars

(* ================================================================ claims *)
\* the callers that hold a connection returned by Get and have not called
\* Put or Remove on it
Holders == { p \in Callers : pc[p] = "holding" }

\* the callers that have been returned a connection and have not yet
\* released its gate slot
SlotHolders == { p \in Callers : pc[p] \in {"holding", "putFree", "removeFree"} }

\* C1: the connections checked out (returned by Get, gate slot not yet given
\* back by Put / Remove) are never more than PoolSize
C1_CheckedOutWithinPoolSize ==
  Cardinality(SlotHolders) <= opt.PoolSize

\* C1 witness: with PoolSize = 1 one caller holds a connection while the
\* other waits at the gate
C1_Witness ==
  /\ opt.PoolSize = 1
  /\ \E p, q \in Callers : pc[p] = "holding" /\ pc[q] = "waitTimer"

\* the callers inside Get that own a connection taken from the idle list or
\* just dialed
Acquiring == { p \in Callers : pc[p] \in {"isStale", "closeConn", "closeConnClose", "register"} }

\* C2: a connection held by a caller is not in the idle list, is not held or
\* being acquired by another caller, is not the connection the reaper took,
\* and is not a connection addIdleConn is about to add
C2_NoDoubleCheckout ==
  \A p \in Holders :
    /\ cn[p] \notin Range(idleConns)
    /\ \A q \in (Holders \cup Acquiring) \ {p} : cn[q] # cn[p]
    /\ reaper.cn # cn[p]
    /\ cn[p] \notin addIdleCn

\* C2 witness: a caller holds a connection that came from the idle list while
\* the other caller has popped another one
C2_Witness ==
  \E p, q \in Callers :
    /\ pc[p] = "holding" /\ pc[q] = "isStale"
    /\ stats.Hits >= 1

\* C3: while only Get / Put / Remove, the reaper and the replenishment run
\* (Close has not been called), len(idleConns) <= poolSize <= PoolSize
C3_IdleWithinPoolSize ==
  closed = 0 => (Len(idleConns) <= poolSize /\ poolSize <= opt.PoolSize)

\* C3 witness: the pool is at its capacity with all of it idle
C3_Witness ==
  /\ closed = 0
  /\ opt.PoolSize = 2
  /\ Len(idleConns) = 2
  /\ poolSize = 2

\* C4: every connection of idleConns is in conns, is pooled and is not closed
C4_IdleConnsTracked ==
  \A c \in Range(idleConns) :
    /\ c \in Range(conns)
    /\ thriftConn[c].pooled
    /\ ~thriftConn[c].closed


C6_BreakerFailsFast ==
  [][ /\ \A p \in Callers :
           /\ (pc[p] = "breaker" /\ pc'[p] # "breaker" /\ dialErrorsNum >= opt.PoolSize) =>
                 /\ pc'[p] = "freeTurn"
                 /\ lastDialError = "dialErr"
                 /\ ret'[p] = lastDialError
                 /\ UNCHANGED << thriftConn, lastDialError, dialErrorsNum >>
           /\ (pc[p] = "dialFailed" /\ pc'[p] # "dialFailed") =>
                 dialErrorsNum' = dialErrorsNum + 1
      /\ (dialErrorsNum >= opt.PoolSize /\ dialErrorsNum' < opt.PoolSize) =>
           /\ tryDials["store"] = tryDials'["store"] + 1
           /\ dialErrorsNum' = 0
    ]_vars

\* C6 witness: with the breaker open one Get has failed on a dial error and
\* the other is at the dial decision
C6_Witness ==
  /\ closed = 0
  /\ dialErrorsNum >= opt.PoolSize
  /\ \E p \in Callers : pc[p] = "freeTurn" /\ ret[p] = "dialErr"
  /\ \E p \in Callers : pc[p] = "breaker"

\* C7: a successful dial in newConn resets dialErrorsNum to 0
C7_SuccessResetsDialErrors ==
  [][ \A p \in Callers :
        (pc[p] = "dial" /\ pc'[p] = "register") => dialErrorsNum' = 0 ]_vars

\* C8: a Get that ends at the gate ends with ErrPoolTimeout, counts exactly one
\* timeout, holds no connection, and leaves conns, idleConns, poolSize and the
\* gate's tokens as they were; Timeouts changes in no other step
C8_TimeoutFrame ==
  [][ /\ \A p \in Callers :
           (pc[p] \in {"waitTurn", "waitTimer"} /\ pc'[p] = "idle") =>
              /\ ret'[p] = "ErrPoolTimeout"
              /\ stats'.Timeouts = stats.Timeouts + 1
              /\ cn'[p] = 0
              /\ UNCHANGED << conns, idleConns, poolSize, queue >>
      /\ stats'.Timeouts # stats.Timeouts =>
           \E p \in Callers : pc[p] = "waitTimer" /\ pc'[p] = "idle"
    ]_vars

\* C8 witness: a Get has timed out while the other caller holds the only slot
C8_Witness ==
  \E p, q \in Callers :
    /\ pc[p] = "idle" /\ ret[p] = "ErrPoolTimeout" /\ cn[p] = 0
    /\ pc[q] = "holding"
    /\ stats.Timeouts = 1
    /\ queue = opt.PoolSize

\* C9: the closed flag never returns to 0, the teardown is entered only by the
\* call that flips the flag (so by one call), and a Close that finds the flag
\* set returns ErrClosed and leaves the pool state as it was
C9_CloseOnce ==
  [][ /\ closed = 1 => closed' = 1
      /\ Cardinality({ p \in Callers : pc'[p] = "teardown" }) <= 1
      /\ \A p \in Callers :
           /\ (pc[p] # "teardown" /\ pc'[p] = "teardown") => (closed = 0 /\ closed' = 1)
           /\ (pc[p] = "idle" /\ pc'[p] = "idle" /\ ret'[p] = "CloseErrClosed"
                 /\ ret[p] # "CloseErrClosed") =>
                 /\ closed = 1
                 /\ UNCHANGED << poolVars, queue, thriftConn, closed >>
    ]_vars

\* C9 witness: one Close is in its teardown while another has returned ErrClosed
C9_Witness ==
  \E p, q \in Callers : pc[p] = "teardown" /\ ret[q] = "CloseErrClosed"

\* Close has flipped the flag and returned
CloseReturned == closed = 1 /\ \A p \in Callers : pc[p] # "teardown"

\* C10: once Close has returned, conns and idleConns are empty
C10_EmptyAfterClose ==
  CloseReturned => (conns = << >> /\ idleConns = << >>)

\* no operation on the pool is in flight: every caller is between calls and
\* holds nothing, no addIdleConn or tryDial goroutine is left, the reaper is
\* between passes or has ended
Quiescent ==
  /\ \A p \in Callers : pc[p] = "idle"
  /\ \A s \in AddIdlePcs : addIdle[s] = 0
  /\ addIdleCn = {}
  /\ \A s \in TryDialPcs : tryDials[s] = 0
  /\ reaper.pc \in {"off", "ticker"}

\* C11: once Close has returned and every operation that was in flight has
\* finished, every connection the pool ever created is closed
C11_CloseClosesAll ==
  (CloseReturned /\ Quiescent) =>
     \A c \in 1..Len(thriftConn) : thriftConn[c].closed

\* C12: a Get that starts after Close has returned fails with ErrClosed,
\* takes no gate slot, no connection and dials nothing; and a Get that was
\* waiting on the gate when Close ran (lateGet) never returns a connection
C12_ClosedPoolRefuses ==
  [][ /\ (CloseReturned /\ gets' = gets + 1) =>
           /\ \E p \in Callers : pc[p] = "idle" /\ ret'[p] = "ErrClosed"
           /\ UNCHANGED << pc, cn, queue, thriftConn >>
      /\ \A p \in lateGet : pc'[p] # "holding"
    ]_vars

\* the callers that hold a token of the gate: from waitTurn's send to freeTurn
GateOwners ==
  { p \in Callers :
      pc[p] \in {"popIdle", "isStale", "closeConn", "closeConnClose", "newConn",
                 "breaker", "dial", "dialFailed", "register", "freeTurn",
                 "holding", "putFree", "removeFree"} }

\* the connections NewConn registered with pooled = false
Overflow == { c \in 1..Len(thriftConn) : ~thriftConn[c].pooled }

\* C13: an overflow connection is never in idleConns and is never in the
\* hands of a Get that took it from the idle list; once its holder has
\* called Put it is out of conns, and when the Put is over it is closed; the
\* gate's tokens are those of the calls in progress, so the Put gave back
\* exactly one
C13_OverflowNeverIdle ==
  /\ \A c \in Overflow :
       /\ c \notin Range(idleConns)
       /\ \A p \in Callers :
            cn[p] = c =>
              /\ pc[p] \in {"holding", "removeFree", "removeClose"}
              /\ pc[p] # "holding" => c \notin Range(conns)
       /\ (\A p \in Callers : cn[p] # c) =>
            (thriftConn[c].closed /\ c \notin Range(conns))
  /\ queue = Cardinality(GateOwners)
             + (IF reaper.pc \in {"reap", "remove", "freeTurn"} THEN 1 ELSE 0)

\* C13 witness: on an open pool an overflow connection has been Put (it is
\* closed, tracked nowhere, in nobody's hands) and the gate is empty again
C13_Witness ==
  /\ closed = 0
  /\ queue = 0
  /\ \E c \in Overflow :
       /\ thriftConn[c].closed
       /\ c \notin Range(conns) \cup Range(idleConns)
       /\ \A p \in Callers : cn[p] # c /\ pc[p] = "idle"

\* C14: the constructed pool has a positive capacity: a Get that arrives at
\* an empty gate (no slot taken by anybody) acquires a slot
C14_EmptyGateAdmits ==
  \A p \in Callers : (pc[p] = "waitTurn" /\ queue = 0) => queueHasRoom

\* C16: Get and NewConn return either a connection or a non-nil error: the
\* error of a call that returned no connection is not nil, a call that
\* returned a connection returned a non-nil one, and no call ends in a panic
C16_ExplicitOutcome ==
  \A p \in Callers :
    /\ ret[p] # "nil"
    /\ pc[p] # "panic"
    /\ pc[p] \in {"holding", "owning"} => (ret[p] = "conn" /\ cn[p] # 0)
    /\ (pc[p] = "idle" /\ ret[p] \in {"ErrClosed", "ErrPoolTimeout", "dialErr"}) =>
          cn[p] = 0

\* C15: the connections tracked by the pool (conns: idle and checked out,
\* pooled and overflow) are never more than PoolSize
C15_ConnsWithinPoolSize ==
  Len(conns) <= opt.PoolSize

\* the dials made so far: the successful ones and those in progress
Dials ==
  Len(thriftConn) + Cardinality({ p \in Callers : pc[p] = "dial" }) + addIdle["dial"]

\* no dial has failed, and no connection has been removed or closed
ReachableAndUntouched ==
  /\ lastDialError = "nil"
  /\ \A c \in 1..Len(thriftConn) :
       /\ ~thriftConn[c].closed
       /\ c \in Range(conns) \cup addIdleCn \cup { cn[p] : p \in Callers }

\* C17: on an open pool with PoolSize = 2 and MinIdleConns = 1 whose endpoint
\* is reachable, whatever the interleaving of the replenishment with the
\* callers' Gets: no Get fails, the pool dials at most two connections, and a
\* Get that finds both slots held by checked-out connections is not admitted
C17_TwoGetsTwoDials ==
  (opt.PoolSize = 2 /\ opt.MinIdleConns = 1 /\ closed = 0 /\ ReachableAndUntouched) =>
     /\ \A p \in Callers : ret[p] \in {"none", "conn"}
     /\ Dials <= 2
     /\ \A p \in Callers :
          (pc[p] \in {"waitTurn", "waitTimer"} /\ Cardinality(Holders) = 2) =>
             ~queueHasRoom

\* the addIdleConn goroutines that have not finished: each was started with a
\* reservation (poolSize++, idleConnsLen++) by checkMinIdleConns
Reservations ==
  addIdle["start"] + addIdle["breaker"] + addIdle["dial"] + addIdle["failed"]
  + Cardinality(addIdleCn)

\* the pooled connections tracked in conns
PooledConns == { c \in Range(conns) : thriftConn[c].pooled }

\* C20: an addIdleConn that fails gives its reservation back: on an open pool
\* poolSize counts the pooled connections of conns plus the reservations of
\* the addIdleConn goroutines still running, and idleConnsLen counts the idle
\* connections plus the reservations not yet turned into a connection, so
\* failed replenishments leave room for pooled connections
C20_FailedDialReleasesReservation ==
  closed = 0 =>
    /\ poolSize = Cardinality(PooledConns) + Reservations
    /\ idleConnsLen = Len(idleConns) + Reservations

\* C19: while the pool stays open an open breaker is followed by the reset
\* of dialErrorsNum to 0 (tryDial is scheduled and its dial succeeds once the
\* endpoint is reachable); and with the breaker not open a Get that reaches
\* the dial decision dials, its successful dial being registered and returned
C19_BreakerHeals ==
  /\ (closed = 0 /\ breakerOpen) ~> (dialErrorsNum = 0 \/ closed = 1)
  /\ [][ \A p \in Callers :
           /\ (pc[p] = "breaker" /\ ~breakerOpen /\ pc'[p] # "breaker") =>
                 pc'[p] = "dial"
           /\ (pc[p] = "dial" /\ pc'[p] \notin {"dial", "dialFailed"}) =>
                 /\ pc'[p] = "register"
                 /\ cn'[p] = Len(thriftConn')
                 /\ ~thriftConn'[cn'[p]].closed
           /\ (pc[p] = "register" /\ pc'[p] # "register") =>
                 (pc'[p] = "holding" /\ ret'[p] = "conn" /\ cn'[p] # 0)
       ]_vars

\* C19 witness: two Gets, both misses: the first one's dial failed and opened
\* the breaker, tryDial has reset dialErrorsNum, and the second Get has
\* dialed and holds its connection
C19_Witness ==
  /\ closed = 0
  /\ opt.PoolSize = 1
  /\ lastDialError = "dialErr"
  /\ dialErrorsNum = 0
  /\ gets = 2 /\ stats.Misses = 2 /\ stats.Hits = 0
  /\ \E p \in Callers : pc[p] = "holding" /\ ret[p] = "conn"

\* C18: with the reaper running and the pool open, a stale connection at the
\* head of idleConns does not stay there: the reaper (or a Get) takes it out,
\* whatever the callers do with the connections they hold
C18_StaleIdleEvicted ==
  \A c \in 1..MaxDials :
    (/\ closed = 0
     /\ reaper.pc # "off"
     /\ Len(idleConns) > 0
     /\ idleConns[1] = c
     /\ isStaleConn(c))
      ~> (c \notin Range(idleConns) \/ closed = 1)

\* the tryDial goroutines that have been started and have not returned
ActiveTryDials ==
  tryDials["start"] + tryDials["dial"] + tryDials["store"] + tryDials["close"]

\* C21: at most one tryDial goroutine is active at any time
C21_OneTryDial ==
  ActiveTryDials <= 1

C23_PoolSizeAccounting ==
  /\ poolSize = Cardinality(PooledConns) + Reservations
  /\ poolSize >= 0

\* the connections nothing refers to: in neither list, in no goroutine's
\* hands, in no caller's hands (a Put that has appended its connection and
\* only has freeTurn left no longer uses it)
Unreferenced ==
  { c \in 1..Len(thriftConn) :
      /\ c \notin Range(conns) \cup Range(idleConns) \cup addIdleCn
      /\ \A p \in Callers : cn[p] = c => pc[p] = "putFree"
      /\ reaper.cn # c }

\* C24: Remove(cn) takes cn out of conns, with poolSize one less iff cn was
\* tracked and pooled (a replenishment that removeConn starts takes the slot
\* again); when Remove returns, cn is closed and in neither conns nor
\* idleConns and in nobody else's hands; from then on nothing refers to it,
\* so no later Get returns it
C24_RemoveDrops ==
  [][ /\ \A p \in Callers :
           /\ (pc[p] = "holding" /\ pc'[p] = "removeFree") =>
                /\ cn[p] \notin Range(conns')
                /\ cn[p] \notin Range(idleConns')
                /\ poolSize' - (addIdle'["start"] - addIdle["start"])
                     = IF cn[p] \in Range(conns) /\ thriftConn[cn[p]].pooled
                       THEN poolSize - 1
                       ELSE poolSize
           /\ (pc[p] = "removeClose" /\ pc'[p] = "idle") =>
                /\ thriftConn'[cn[p]].closed
                /\ cn[p] \in Unreferenced'
      /\ Unreferenced \subseteq Unreferenced'
    ]_vars

\* C24 witness: on an open pool whose connections never go stale a pooled
\* connection has been removed: it is closed and nothing refers to it
C24_Witness ==
  /\ closed = 0
  /\ opt.IdleTimeout = 0
  /\ \E c \in Unreferenced : thriftConn[c].pooled /\ thriftConn[c].closed

\* C25: Remove called on a connection that is not checked out (its caller
\* holds no token of the gate for it) does not block in freeTurn, and the
\* tokens of the calls that passed the gate stay in the channel
C25_RemoveFreesOwnSlot ==
  /\ \A p \in Callers : pc[p] = "rmFree" => queueHasToken
  /\ queue >= Cardinality(GateOwners)

\* C26: the tokens in the gate channel are exactly those of the calls between
\* waitTurn's send and freeTurn (checked-out connections, Get calls on their
\* way, a reaper iteration), so a Get that returned an error holds none, and
\* the freeTurn of a Put or Remove that follows a successful Get finds a token
C26_GateBalanced ==
  /\ queue = Cardinality(GateOwners)
             + (IF reaper.pc \in {"reap", "remove", "freeTurn"} THEN 1 ELSE 0)
  /\ \A p \in Callers : pc[p] \in {"putFree", "removeFree"} => queueHasToken

\* C27: a pass of ReapStaleConns takes a connection only from the head of
\* idleConns and only when it is stale at that moment; with an empty list or
\* a head that is not stale it takes nothing and the pass ends after its
\* freeTurn; the connection it removes and closes is the one it took, which
\* no caller has checked out; n grows by one per connection closed and is
\* what the pass reports; each iteration sends one token and receives one
C27_ReaperPass ==
  [][ /\ (reaper.pc = "reap" /\ reaper'.pc # "reap") =>
           IF idleConns # << >> /\ isStaleConn(idleConns[1])
           THEN /\ reaper'.pc = "remove"
                /\ reaper'.cn = idleConns[1]
                /\ idleConns' = Tail(idleConns)
           ELSE /\ reaper'.pc = "freeTurn"
                /\ reaper'.cn = 0
                /\ idleConns' = idleConns
      /\ reaper.pc \in {"remove", "freeTurn", "close"} =>
           /\ reaper.cn # 0 =>
                \A p \in Callers : cn[p] = reaper.cn => pc[p] = "putFree"
           /\ reaper'.pc # reaper.pc => reaper'.cn \in {reaper.cn, 0}
      /\ (reaper.pc = "remove" /\ reaper'.pc # "remove") =>
           /\ reaper.cn \notin Range(conns')
           /\ thriftConn' = thriftConn
      /\ (reaper.pc = "getTurn" /\ reaper'.pc # "getTurn") =>
           (reaper'.pc = "reap" /\ queue' = queue + 1)
      /\ (reaper.pc = "freeTurn" /\ reaper'.pc # "freeTurn") =>
           /\ queue' = queue - 1
           /\ IF reaper.cn # 0
              THEN reaper'.pc = "close" /\ stats' = stats
              ELSE /\ reaper'.pc = "ticker"
                   /\ stats'.StaleConns = stats.StaleConns + reaper.n
      /\ (reaper.pc = "close" /\ reaper'.pc # "close") =>
           /\ thriftConn' = ConnClose(thriftConn, reaper.cn)
           /\ reaper'.n = reaper.n + 1
           /\ reaper'.pc = "getTurn"
      /\ reaper.pc \in {"ticker", "off"} => reaper.n = 0
      /\ (reaper'.n # reaper.n) => reaper.pc \in {"close", "freeTurn"}
    ]_vars

\* C27 witness: a pass that has evicted one stale connection stops at a head
\* that is not stale
C27_Witness ==
  /\ reaper.pc = "freeTurn"
  /\ reaper.cn = 0
  /\ reaper.n = 1
  /\ idleConns # << >>
  /\ ~isStaleConn(idleConns[1])

\* C28: StaleConns counts every connection evicted for staleness, by a reaper
\* pass (whose count n is added when the pass ends) or by Get discarding a
\* stale connection it popped: each such eviction adds one, nothing else
\* changes the count
C28_StaleConnsCountsAll ==
  [][ stats'.StaleConns + reaper'.n
        = stats.StaleConns + reaper.n
          + (IF reaper.pc = "close" /\ reaper'.pc # "close" THEN 1 ELSE 0)
          + Cardinality({ p \in Callers :
                            pc[p] = "closeConnClose" /\ pc'[p] # "closeConnClose" })
    ]_vars

\* the pooled connections that are out of the idle list: checked out, or in
\* the hands of a Get or of the reaper on their way out of the pool
CheckedOutPooled ==
  { c \in Range(conns) : thriftConn[c].pooled /\ c \notin Range(idleConns) }

MinOf(x, y) == IF x <= y THEN x ELSE y

\* idleConns holds the connections MinIdleConns asks for, as far as the slots
\* not taken by checked-out connections allow, each of them also in conns
Replenished ==
  /\ Len(idleConns) >= MinOf(opt.MinIdleConns,
                             opt.PoolSize - Cardinality(CheckedOutPooled))
  /\ Range(idleConns) \subseteq Range(conns)

\* a replenishment dial waits for a connection the bounded endpoint of the
\* model no longer gives
DialBudgetSpent == Len(thriftConn) >= MaxDials /\ addIdle["dial"] > 0

\* C29: on an open pool with MinIdleConns >= 1 and a reachable endpoint,
\* whenever the idle list is short of its minimum (after construction, after
\* a Get took a connection, after an eviction) the addIdleConn goroutines
\* bring it back to the minimum without any step of a caller
C29_MinIdleReplenished == (~Replenished) ~> (Replenished \/ DialBudgetSpent)

\* C29 witness: a Get took the idle connection of a two-slot pool and
\* addIdleConn has put a newly dialed one in its place
C29_Witness ==
  /\ opt.PoolSize = 2
  /\ gets = 1
  /\ stats.Hits = 1
  /\ \E p \in Callers : pc[p] = "holding" /\ cn[p] = 1
  /\ idleConns = << 2 >>
  /\ Replenished

\* C30: a passthrough operation of hBaseCMD hands its connection back once,
\* with Put when the remote call succeeded and with Remove when it failed, so
\* the connection of a failed call leaves conns and does not enter idleConns
C30_FailedCallNotPooled ==
  [][ \A p \in Callers :
        /\ (pc[p] = "calledOk" /\ pc'[p] # "calledOk") =>
             (thriftConn[cn[p]].pooled => idleConns' = Append(idleConns, cn[p]))
        /\ (pc[p] = "calledErr" /\ pc'[p] # "calledErr") =>
             /\ cn[p] \notin Range(idleConns')
             /\ cn[p] \notin Range(conns')
    ]_vars

\* C31: a Put that starts after Close has returned does not put the
\* connection back in the idle list, and when that Put is over the
\* connection is closed, the Put having received one token from the gate
C31_PutOnClosedPool ==
  [][ \A p \in Callers :
        /\ (CloseReturned /\ pc[p] = "holding" /\ pc'[p] \in {"putFree", "removeFree"}) =>
             cn[p] \notin Range(idleConns')
        /\ (CloseReturned /\ pc[p] \in {"putFree", "removeClose"} /\ pc'[p] = "idle") =>
             thriftConn'[cn[p]].closed
        /\ (pc[p] \in {"putFree", "removeFree"} /\ pc'[p] # pc[p]) =>
             queue' = queue - 1
    ]_vars

\* the goroutines that are about to call cn.Close() on connection c outside
\* the mutex: Remove, CloseConn (from Get or called directly), the reaper
Closers(c) ==
  { p \in Callers : cn[p] = c /\ pc[p] \in {"removeClose", "closeConnClose",
                                            "ccClose", "rmClose"} }
  \cup (IF reaper.pc = "close" /\ reaper.cn = c THEN {"reaper"} ELSE {})

\* C32: the socket of a connection is closed at most once, closed is set
\* exactly when it has been, and closed never goes back to false.  The test
\* and the write of closed in ThriftConn.Close are not atomic; they are never
\* interleaved, because at most one goroutine is about to close a given
\* connection outside the mutex and that connection has left conns, so the
\* Close of the pool (which closes the connections of conns under the mutex)
\* does not reach it
C32_CloseIdempotent ==
  /\ [](\A c \in 1..Len(thriftConn) :
          /\ thriftConn[c].socketCloses <= 1
          /\ thriftConn[c].closed <=> thriftConn[c].socketCloses = 1
          /\ Cardinality(Closers(c)) <= 1
          /\ Closers(c) # {} => c \notin Range(conns))
  /\ [][ \A c \in 1..Len(thriftConn) :
           thriftConn[c].closed => thriftConn'[c].closed ]_vars

\* C32 witness: Remove is about to call Close on a connection that the Close
\* of the pool has already closed
C32_Witness ==
  \E p \in Callers :
    pc[p] = "removeClose" /\ thriftConn[cn[p]].closed /\ CloseReturned

\* C33: idleConnsLen is never negative; on an open pool it equals
\* len(idleConns) whenever no addIdleConn goroutine is running, and at
\* quiescence it does not exceed len(conns), the TotalConns of Stats
C33_IdleCounter ==
  /\ idleConnsLen >= 0
  /\ (closed = 0 /\ Reservations = 0) => idleConnsLen = Len(idleConns)
  /\ (closed = 0 /\ Quiescent) => idleConnsLen <= Len(conns)

\* the Get calls in progress that have not reached the step that counts them
Uncounted ==
  { p \in Callers : pc[p] \in {"waitTurn", "waitTimer", "popIdle", "isStale",
                               "closeConn", "closeConnClose"} }

\* C34: a Get that passed the closed check is counted once: Timeouts when
\* waitTurn's timer fires (ErrPoolTimeout), Hits when it returns a connection
\* it popped from idleConns, Misses when it finds the idle list empty and goes
\* on to dial (whatever the dial gives); no other step changes the three
\* counters, so while no Get has been refused by the closed check their sum
\* is the number of Get calls that have reached their counting step
C34_GetCountedOnce ==
  /\ [](closed = 0 =>
          stats.Hits + stats.Misses + stats.Timeouts = gets - Cardinality(Uncounted))
  /\ [][ LET timedOut == { p \in Callers : pc[p] = "waitTimer" /\ pc'[p] = "idle" }
             missed == { p \in Callers : pc[p] = "popIdle" /\ pc'[p] = "newConn" }
             hit == { p \in Callers : pc[p] = "isStale" /\ pc'[p] = "holding" }
         IN /\ stats'.Timeouts = stats.Timeouts + Cardinality(timedOut)
            /\ stats'.Misses = stats.Misses + Cardinality(missed)
            /\ stats'.Hits = stats.Hits + Cardinality(hit)
            /\ \A p \in timedOut : ret'[p] = "ErrPoolTimeout"
            /\ \A p \in hit : ret'[p] = "conn" /\ cn'[p] = cn[p] /\ cn[p] # 0
            /\ \A p \in Callers :
                 (p \notin Uncounted /\ p \in Uncounted') => pc[p] = "idle"
       ]_vars

\* C34 witness: two Get calls are over, one counted as a miss and one as a hit
C34_Witness ==
  /\ gets = 2
  /\ Uncounted = {}
  /\ stats.Misses = 1
  /\ stats.Hits = 1
  /\ stats.Timeouts = 0

\* C35: the last-used times of idleConns never decrease from head to tail,
\* so when the head is not stale no idle connection is
C35_IdleSortedByUsedTime ==
  /\ \A i, j \in 1..Len(idleConns) :
       i < j => thriftConn[idleConns[i]].usedTime <= thriftConn[idleConns[j]].usedTime
  /\ (idleConns # << >> /\ ~isStaleConn(idleConns[1])) =>
        \A i \in 1..Len(idleConns) : ~isStaleConn(idleConns[i])

====
